---------------------------- MODULE Spec2Model ----------------------------
(***************************************************************************)
(* A model of osh5io.py: read_h5 and write_h5, the OSIRIS/VisXd HDF5       *)
(* convention layer, over an abstract h5py store.                          *)
(*                                                                         *)
(* A store (one HDF5 file) is a record                                     *)
(*   root : attribute map of the file root        (h5file.attrs)           *)
(*   ds   : top-level datasets, name -> [shape, data, attrs]               *)
(*   axes : the /AXIS group, n -> [ext, attrs]    (/AXIS/AXISn)            *)
(* An attribute map is a function from key to attribute value.  A value is *)
(* a record [t, s, n]: t is the Python/numpy type, s its text (when it is  *)
(* text-like) and n its numbers (when it is numeric):                      *)
(*   "str"    a native Python str                                          *)
(*   "bytes"  a bare byte string (bytes / numpy.bytes_ scalar)             *)
(*   "bytes1" a one-element array of byte strings, numpy.array([b'..'])    *)
(*   "num"    a numeric scalar                                             *)
(*   "nseq"   a numeric sequence (list / numpy array)                      *)
(*   "units"  an OSUnits object (s is its canonical text)                  *)
(* Numbers are integers: no operation of the module does arithmetic on a   *)
(* stored number, so 1.0 is modelled by 1.                                 *)
(* Python strings that the code takes apart (file names, directories) are  *)
(* sequences of tokens; Python's None is the token None.                   *)
(***************************************************************************)
EXTENDS Integers, Sequences, FiniteSets, TLC

VARIABLES fs, handles, calls, last, written, pc, h5d, rw, cyc

vars == <<fs, handles, calls, last, written, pc, h5d, rw, cyc>>

\* ----------------------------------------------------------------- values

None == "None"

EmptyMap == [k \in {} |-> None]

Str(s) == [t |-> "str", s |-> s, n |-> <<>>]

Bytes(s) == [t |-> "bytes", s |-> s, n |-> <<>>]

Bytes1(s) == [t |-> "bytes1", s |-> s, n |-> <<>>]

Num(k) == [t |-> "num", s |-> "", n |-> <<k>>]

NumSeq(q) == [t |-> "nseq", s |-> "", n |-> q]

UnitsValue(c) == [t |-> "units", s |-> c, n |-> <<>>]

\* What an expression that raises evaluates to (the exception's name in s).
Raised(e) == [t |-> "raise", s |-> e, n |-> <<>>]

\* value[0] of read_h5: the first element, or the exception indexing raises.
\* A bytes1 array yields its byte string; a numeric sequence its first
\* number; a non-empty str its first character (a str); a non-empty bare
\* byte string its first byte (an int); a numeric scalar and every empty
\* value cannot be indexed.
FirstElement(value) ==
    CASE value.t = "bytes1" -> Bytes(value.s)
      [] value.t = "nseq" /\ Len(value.n) >= 1 -> Num(value.n[1])
      [] value.t = "str" /\ value.s # "" -> Str("char")
      [] value.t = "bytes" /\ value.s # "" -> Num(0)
      [] OTHER -> Raised("IndexError")

\* value[0].decode('utf-8') if isinstance(value[0], bytes) else value
decode(value) ==
    LET first == FirstElement(value)
    IN  IF first.t = "raise" THEN first
        ELSE IF first.t = "bytes" THEN Str(first.s)
        ELSE value

\* np.array([value.encode('utf-8')]) if isinstance(value, str) else value
encode(value) ==
    IF value.t = "str" THEN Bytes1(value.s) ELSE value

\* The attribute map a loop `for key, value in attrs.items(): out[key] = f(value)`
\* builds.
DecodeAll(attrs) == [k \in DOMAIN attrs |-> decode(attrs[k])]

EncodeAll(attrs) == [k \in DOMAIN attrs |-> encode(attrs[k])]

\* Whether such a loop raises.
Raises(attrs) == \E k \in DOMAIN attrs : attrs[k].t = "raise"

\* ------------------------------------------------------------------ units

\* OSUnits(text): the parsed unit.  Two texts that name the same unit parse
\* to the same value; its canonical text lists the factors in a fixed order.
OSUnits(text) ==
    UnitsValue(CASE text = "n_0 c" -> "c n_0"
                 [] text = "c n_0" -> "c n_0"
                 [] text = "n_0" -> "n_0"
                 [] text = "a.u." -> "a.u."
                 [] OTHER -> "")

\* str(x): the canonical text of a unit, the text itself of a str.
format(value) == value.s


\* ------------------------------------------------------------- file names

\* An argument left at its default None, for arguments that are strings
\* taken apart (filename, path).
NoArg == <<None>>

\* The file a path string names: the operating system reads a run of
\* separators as one.
RECURSIVE FileOf(_)
FileOf(fname) ==
    IF Len(fname) <= 1 THEN fname
    ELSE IF fname[1] = "/" /\ fname[2] = "/" THEN FileOf(Tail(fname))
    ELSE <<fname[1]>> \o FileOf(Tail(fname))

\* os.path.basename: what follows the last separator.
RECURSIVE basename(_)
basename(fname) ==
    IF \E i \in 1..Len(fname) : fname[i] = "/" THEN basename(Tail(fname))
    ELSE fname

\* The digit runs a file name may carry.
DigitRuns == {"123456", "000001"}

IsDigitRun(tok) == tok \in DigitRuns

\* fn_rule.findall(name): the digit runs of the name, in order.
fn_rule_findall(name) == SelectSeq(name, IsDigitRun)

\* ------------------------------------------------------- in-memory model

\* DataAxis(axis_min, axis_max, axis_numberpoints, attrs=attrs)
DataAxis(axis_min, axis_max, axis_numberpoints, attrs) ==
    [min |-> axis_min, max |-> axis_max, length |-> axis_numberpoints,
     attrs |-> attrs]

\* H5Data(array, timestamp=, name=, data_attrs=, run_attrs=, axes=)
H5Data(array, timestamp, name, data_attrs, run_attrs, axes) ==
    [kind |-> "H5Data", array |-> array, timestamp |-> timestamp,
     name |-> name, data_attrs |-> data_attrs, run_attrs |-> run_attrs,
     axes |-> axes]

\* H5Data(data): every field but the array at its default.
H5DataOf(array) == H5Data(array, None, None, EmptyMap, EmptyMap, <<>>)

\* A numpy array or a nested list handed to write_h5 in place of an H5Data:
\* only its array field is read.
Raw(kind, array) == [H5DataOf(array) EXCEPT !.kind = kind]

\* What a call returns when it raises.
NoModel == [H5DataOf([shape |-> <<>>, data |-> <<>>]) EXCEPT !.kind = None]

\* ------------------------------------------------------------------ store

EmptyStore == [root |-> EmptyMap, ds |-> EmptyMap, axes |-> EmptyMap]

\* close() forgotten.
closeNothing(hv, id) == hv

\* h5file.close() / data_file.close(): the handle call `id` opened is open
\* no longer.
close(hv, id) == {h \in hv : h.id # id}

\* os.path.isfile(fname)
isfile(fsv, file) == file \in DOMAIN fsv

\* The existing file left in place.
RemoveNothing(fsv, file) == fsv

\* if os.path.isfile(fname): os.remove(fname)
RemoveExisting(fsv, file) ==
    IF isfile(fsv, file) THEN [f \in DOMAIN fsv \ {file} |-> fsv[f]] ELSE fsv

\* h5py.File(fname): opens the file by that name, creating it when there is
\* none.
OpenStore(fsv, file) == IF isfile(fsv, file) THEN fsv[file] ELSE EmptyStore

\* The H5Data write_h5 works on: data itself, or data wrapped.
DataObject(data) ==
    IF data.kind = "H5Data" THEN data ELSE H5DataOf(data.array)

\* The dataset name write_h5 settles on.
CurrentNameAttr(data_object, dataset_name) ==
    IF dataset_name # None THEN dataset_name
    ELSE IF data_object.name \notin {None, ""} THEN data_object.name
    ELSE "Data"

\* A file name made up for a model without a timestamp.
HasTimestampAlways(data_object) == TRUE

\* data_object.timestamp is not None
HasTimestamp(data_object) == data_object.timestamp # None

\* The path string write_h5 builds; defined when a filename is given or the
\* model has a timestamp.
WriteFname(data_object, filename, path, current_name_attr) ==
    LET fname == IF path \in {NoArg, <<>>} THEN <<>> ELSE path
    IN  IF filename # NoArg THEN fname \o filename
        ELSE fname \o <<current_name_attr, "-", data_object.timestamp, ".h5">>

\* The data_attrs write_h5 copies over: the model's, with UNITS replaced by
\* the unit's text as a byte-string array, or by b'a.u.' when there is none.
WriteDataAttrs(data_object) ==
    LET da == data_object.data_attrs
        units == IF "UNITS" \in DOMAIN da THEN Bytes1(format(da["UNITS"]))
                 ELSE Bytes1("a.u.")
    IN  ("UNITS" :> units) @@ da

\* The dataset's attributes: the two required defaults, then the model's.
DatasetAttrs(data_object) ==
    EncodeAll(WriteDataAttrs(data_object))
        @@ ("UNITS" :> Bytes1("") @@ "LONG_NAME" :> Bytes1(""))

\* The required root attributes and their defaults.
RootDefaults ==
    "DT" :> NumSeq(<<1>>) @@ "ITER" :> NumSeq(<<0>>)
    @@ "MOVE C" :> NumSeq(<<0>>) @@ "PERIODIC" :> NumSeq(<<0>>)
    @@ "TIME" :> NumSeq(<<0>>) @@ "TIME UNITS" :> Bytes1("")
    @@ "TYPE" :> Bytes1("grid") @@ "XMIN" :> NumSeq(<<0>>)
    @@ "XMAX" :> NumSeq(<<0>>)

\* The defaults set after the copy of run_attrs.
RootAttrsDefaultsLast(old, data_object) ==
    RootDefaults @@ EncodeAll(data_object.run_attrs) @@ old

\* The root attributes after the defaults and the copy of run_attrs, on top
\* of what the file held.
RootAttrs(old, data_object) ==
    EncodeAll(data_object.run_attrs) @@ RootDefaults @@ old

\* axis_data.attrs[key] = value, for every attribute of the axis.
AxisAttrs(old, axis) == axis.attrs @@ old

\* One pass of the axis loop: AXIS/AXIS(n - i) is created when the file has
\* none and reused otherwise, its two values set and its attributes filled.
WriteAxis(axes, n, i, axis) ==
    LET axis_name == n - i
        old == IF axis_name \in DOMAIN axes THEN axes[axis_name].attrs
               ELSE EmptyMap
    IN  (axis_name :> [ext |-> <<axis.min, axis.max>>,
                       attrs |-> AxisAttrs(old, axis)]) @@ axes

\* for i in range(0, number_axis_objects_we_need), from pass i on.
RECURSIVE WriteAxes(_, _, _)
WriteAxes(axes, data_axes, i) ==
    IF i >= Len(data_axes) THEN axes
    ELSE WriteAxes(WriteAxis(axes, Len(data_axes), i, data_axes[i + 1]),
                   data_axes, i + 1)

\* write_h5(data, filename, path, dataset_name, write_data) as call `id` on
\* file system fsv with handles hv open: the exception raised ("ok": none),
\* the file system and the open handles it leaves.
write_h5(fsv, hv, id, data, filename, path, dataset_name, write_data) ==
    LET data_object == DataObject(data)
        current_name_attr == CurrentNameAttr(data_object, dataset_name)
    IN  IF filename = NoArg /\ ~HasTimestamp(data_object)
        THEN [err |-> "You did not specify a filename!!!",
              fs |-> fsv, handles |-> hv]
        ELSE
        LET file == FileOf(WriteFname(data_object, filename, path,
                                      current_name_attr))
            removed == RemoveExisting(fsv, file)
            h5file == OpenStore(removed, file)
            opened == hv \cup {[id |-> id, file |-> file, mode |-> "a"]}
        IN  IF current_name_attr \in DOMAIN h5file.ds
            THEN \* create_dataset: the name already exists
                 [err |-> "ValueError",
                  fs |-> (file :> h5file) @@ removed, handles |-> opened]
            ELSE
            LET h5dataset == [shape |-> data_object.array.shape,
                              data |-> data_object.array.data,
                              attrs |-> DatasetAttrs(data_object)]
                store == [root |-> RootAttrs(h5file.root, data_object),
                          ds |-> (current_name_attr :> h5dataset) @@ h5file.ds,
                          axes |-> WriteAxes(h5file.axes, data_object.axes, 0)]
            IN  [err |-> "ok",
                 fs |-> (file :> store) @@ removed,
                 handles |-> IF write_data THEN close(opened, id) ELSE opened]

\* ------------------------------------------------------------------- read

\* fname = filename if not path else path + '/' + filename
ReadFname(filename, path) ==
    IF path \in {NoArg, <<>>} THEN filename ELSE path \o <<"/">> \o filename

\* The dataset names of the model, in the order h5file.items() yields them.
NameOrder == <<"Data", "e1", "test">>

\* scan_hdf5_file_for_main_data_array: the first top-level entry that is a
\* dataset (the AXIS group is passed over), None when there is none.
scan_hdf5_file_for_main_data_array(h5file) ==
    LET found == {i \in 1..Len(NameOrder) : NameOrder[i] \in DOMAIN h5file.ds}
    IN  IF found = {} THEN None
        ELSE NameOrder[CHOOSE i \in found : \A j \in found : i <= j]

\* shape[axis_number - 1]: the dimension counted from the front.
AxisNumberPointsFromFront(shape, axis_number) == shape[axis_number]

\* the_data_hdf_object.shape[-axis_number]; defined for 1 <= axis_number <= rank.
AxisNumberPoints(shape, axis_number) == shape[Len(shape) + 1 - axis_number]

\* The axis probe loop from axis_number on, axes being those found so far:
\* the exception that ends the call ("ok": the loop broke on a missing
\* record) and the axes.
RECURSIVE ProbeAxes(_, _, _, _)
ProbeAxes(h5file, shape, axis_number, axes) ==
    IF axis_number \notin DOMAIN h5file.axes
    THEN [err |-> "ok", axes |-> axes]
    ELSE LET axis == h5file.axes[axis_number]
             attrs == DecodeAll(axis.attrs)
         IN  IF Raises(attrs) \/ axis_number > Len(shape)
             THEN [err |-> "IndexError", axes |-> axes]
             ELSE ProbeAxes(h5file, shape, axis_number + 1,
                     <<DataAxis(axis.ext[1], axis.ext[2],
                                AxisNumberPoints(shape, axis_number), attrs)>>
                     \o axes)

\* data_attrs after the unit string is converted: OSUnits of the decoded
\* UNITS, OSUnits('') when the dataset has none.
ReadDataAttrs(decoded) ==
    ("UNITS" :> IF "UNITS" \in DOMAIN decoded THEN OSUnits(decoded["UNITS"].s)
                ELSE OSUnits("")) @@ decoded

\* read_h5(filename, path) as call `id`: the exception raised ("ok": none),
\* the model returned and the open handles it leaves.  The handle the call
\* opens is closed by its last statement alone.
read_h5(fsv, hv, id, filename, path) ==
    LET file == FileOf(ReadFname(filename, path))
        opened == hv \cup {[id |-> id, file |-> file, mode |-> "r"]}
    IN  IF ~isfile(fsv, file)
        THEN [err |-> "OSError", ret |-> NoModel, handles |-> hv]
        ELSE
        LET data_file == fsv[file]
            name == scan_hdf5_file_for_main_data_array(data_file)
            stamps == fn_rule_findall(basename(filename))
        IN  IF name = None
            THEN [err |-> "Main data array not found", ret |-> NoModel,
                  handles |-> opened]
            ELSE IF stamps = <<>>
            THEN [err |-> "IndexError", ret |-> NoModel, handles |-> opened]
            ELSE
            LET the_data_hdf_object == data_file.ds[name]
                run_attrs == DecodeAll(data_file.root)
                data_attrs == DecodeAll(the_data_hdf_object.attrs)
                probe == ProbeAxes(data_file, the_data_hdf_object.shape, 1, <<>>)
            IN  IF Raises(run_attrs) \/ Raises(data_attrs)
                THEN [err |-> "IndexError", ret |-> NoModel, handles |-> opened]
                ELSE IF probe.err # "ok"
                THEN [err |-> probe.err, ret |-> NoModel, handles |-> opened]
                ELSE [err |-> "ok",
                      ret |-> H5Data([shape |-> the_data_hdf_object.shape,
                                      data |-> the_data_hdf_object.data],
                                     stamps[1], name,
                                     ReadDataAttrs(data_attrs), run_attrs,
                                     probe.axes),
                      handles |-> close(opened, id)]

\* ----------------------------------------------------------------- inputs

\* The calls one behaviour of the library makes.
MaxCalls == 2

\* The read/write cycles of the self-test: for i in range(5).
Cycles == 5

A23 == [shape |-> <<2, 3>>, data |-> <<0, 1, 2, 3, 4, 5>>]

A2 == [shape |-> <<2>>, data |-> <<7, 8>>]

\* The axes of the self-test, with native text attributes.
ay == DataAxis(10, 11, 2, "UNITS" :> Str("c"))

ax == DataAxis(0, 3, 3, "UNITS" :> Str("1/w"))

\* The model of the self-test.
Base == H5Data(A23, "123456", "test", "UNITS" :> UnitsValue("n_0"),
               EmptyMap, <<ay, ax>>)

RunAttrsChoices ==
    { "TIME" :> NumSeq(<<2>>) @@ "TYPE" :> Str("particles") @@ "NOTE" :> Str("a"),
      "ITER" :> Num(5) }

DataAttrsChoices ==
    { "UNITS" :> UnitsValue("c n_0") @@ "LONG_NAME" :> Str("E1"),
      "LONG_NAME" :> Str("rho") @@ "SCALE" :> Bytes("x") }

\* The axis of a one-dimensional array, with a text attribute encoded by the
\* caller (the empty text) and a numeric one.
EncodedAxes ==
    <<DataAxis(0, 1, 2, "UNITS" :> Bytes1("") @@ "N" :> NumSeq(<<3>>))>>

\* The models the self-test is run on: its own, and it with one field
\* changed.
Models ==
    {Base}
    \cup {[Base EXCEPT !.run_attrs = r] : r \in RunAttrsChoices}
    \cup {[Base EXCEPT !.data_attrs = d] : d \in DataAttrsChoices}
    \cup {[Base EXCEPT !.array = A2, !.axes = EncodedAxes]}
    \cup {[Base EXCEPT !.name = None]}

\* What a caller hands to write_h5: the self-test's model, it with
\* run_attrs, it without a timestamp, and a numpy array.
DataInputs ==
    {Base, [Base EXCEPT !.timestamp = None], Raw("ndarray", A23)}
    \cup {[Base EXCEPT !.run_attrs = r] : r \in RunAttrsChoices}

F1 == <<"test", "-", "123456", ".h5">>

F2 == <<"e1", "-", "000001", ".h5">>

WriteFilenames == {NoArg, F1}

ReadFilenames == {<<stem, "-", "123456", ".h5">> : stem \in {"Data", "e1", "test"}}

\* The directory arguments; the directory d exists.
Paths == {NoArg, <<"d", "/">>}

DatasetNames == {None, "e1"}

\* ---------------------------------------------------------------- actions

NoCall == [op |-> None, err |-> "ok", id |-> 0, data |-> NoModel,
           filename |-> NoArg, path |-> NoArg, dataset_name |-> None,
           write_data |-> TRUE, file |-> <<>>, ret |-> NoModel]

\* The file a write_h5 call resolves to.
WriteFile(data, filename, path, dataset_name) ==
    LET data_object == DataObject(data)
    IN  FileOf(WriteFname(data_object, filename, path,
                          CurrentNameAttr(data_object, dataset_name)))

\* The successful write_h5 calls to each file so far, with `call` added.
NoteWrite(w, call) ==
    LET before == IF call.file \in DOMAIN w THEN w[call.file] ELSE <<>>
    IN  (call.file :> Append(before, call)) @@ w

\* A caller calls write_h5.
Write(data, filename, path, dataset_name, write_data) ==
    /\ pc = "api"
    /\ calls < MaxCalls
    /\ \E r \in {write_h5(fs, handles, calls + 1, data, filename, path,
                           dataset_name, write_data)} :
          LET file == IF r.err = "You did not specify a filename!!!" THEN <<>>
                      ELSE WriteFile(data, filename, path, dataset_name)
              call == [op |-> "write", err |-> r.err, id |-> calls + 1,
                       data |-> data, filename |-> filename, path |-> path,
                       dataset_name |-> dataset_name,
                       write_data |-> write_data, file |-> file,
                       ret |-> NoModel]
          IN  /\ fs' = r.fs
              /\ handles' = r.handles
              /\ last' = call
              /\ written' = IF r.err = "ok" THEN NoteWrite(written, call)
                            ELSE written
    /\ calls' = calls + 1
    /\ UNCHANGED <<pc, h5d, rw, cyc>>

\* A caller calls read_h5.
Read(filename, path) ==
    /\ pc = "api"
    /\ calls < MaxCalls
    /\ \E r \in {read_h5(fs, handles, calls + 1, filename, path)} :
           /\ handles' = r.handles
           /\ last' = [NoCall EXCEPT !.op = "read", !.err = r.err,
                       !.id = calls + 1, !.filename = filename,
                       !.path = path,
                       !.file = FileOf(ReadFname(filename, path)),
                       !.ret = r.ret]
    /\ calls' = calls + 1
    /\ UNCHANGED <<fs, written, pc, h5d, rw, cyc>>

Init ==
    /\ fs = EmptyMap
    /\ handles = {}
    /\ calls = 0
    /\ last = NoCall
    /\ written = EmptyMap
    /\ pc = "api"
    /\ h5d = NoModel
    /\ rw = NoModel
    /\ cyc = 0

Next ==
    \/ \E data \in DataInputs, filename \in WriteFilenames, path \in Paths,
          dataset_name \in DatasetNames, write_data \in BOOLEAN :
          Write(data, filename, path, dataset_name, write_data)
    \/ \E filename \in ReadFilenames, path \in Paths : Read(filename, path)

Spec == Init /\ [][Next]_vars

\* -------------------------------------------------------------- self-test
\* The __main__ block, run on any model of Models and either file name: it
\* writes the model, reads it twice (rw, h5d), then Cycles times writes rw
\* to a file of its own carrying the same digit run, reads it back into rw
\* and asserts that rw equals the original array and h5d.

TestFilenames == {F1, F2}

\* 'test' + str(i), for i in range(5)
LoopStems == <<"test0", "test1", "test2", "test3", "test4">>

\* './test' + str(i) + '-123456.h5', the digit run being that of the first
\* file.
LoopFilename(i, stamp) == <<LoopStems[i + 1], "-", stamp, ".h5">>

\* a: the array of the model the self-test first wrote (call 1).
OriginalArray(w) ==
    LET first == CHOOSE c \in UNION {{w[f][i] : i \in 1..Len(w[f])} : f \in DOMAIN w} :
                     c.id = 1
    IN  first.data.array

\* The asserts of one cycle.
AssertsHold(rwv, h5dv, a) ==
    /\ rwv.array = a
    /\ \A i \in 1..Len(rwv.axes) :
          i <= Len(h5dv.axes) =>
             /\ rwv.axes[i].attrs = h5dv.axes[i].attrs
             /\ rwv.axes[i].min = h5dv.axes[i].min
             /\ rwv.axes[i].max = h5dv.axes[i].max
             /\ rwv.axes[i].length = h5dv.axes[i].length
    /\ h5dv.timestamp = rwv.timestamp
    /\ h5dv.name = rwv.name
    /\ h5dv.data_attrs = rwv.data_attrs
    /\ h5dv.run_attrs = rwv.run_attrs

WriteCall(id, err, data, filename) ==
    [NoCall EXCEPT !.op = "write", !.err = err, !.id = id, !.data = data,
                   !.filename = filename,
                   !.file = WriteFile(data, filename, NoArg, None)]

ReadCall(id, err, filename, ret) ==
    [NoCall EXCEPT !.op = "read", !.err = err, !.id = id,
                   !.filename = filename,
                   !.file = FileOf(ReadFname(filename, NoArg)), !.ret = ret]

\* write_h5(h5d, './test-123456.h5')
TestWrite(model, filename) ==
    /\ pc = "start"
    /\ \E r \in {write_h5(fs, handles, calls + 1, model, filename, NoArg,
                           None, TRUE)} :
          /\ fs' = r.fs
          /\ handles' = r.handles
          /\ last' = WriteCall(calls + 1, r.err, model, filename)
          /\ written' = IF r.err = "ok" THEN NoteWrite(written, last')
                        ELSE written
          /\ pc' = IF r.err = "ok" THEN "read_rw" ELSE "raised"
    /\ calls' = calls + 1
    /\ UNCHANGED <<h5d, rw, cyc>>

\* rw = read_h5('./test-123456.h5')
TestReadRw ==
    /\ pc = "read_rw"
    /\ \E r \in {read_h5(fs, handles, calls + 1, last.filename, NoArg)} :
          /\ handles' = r.handles
          /\ last' = ReadCall(calls + 1, r.err, last.filename, r.ret)
          /\ rw' = IF r.err = "ok" THEN r.ret ELSE rw
          /\ pc' = IF r.err = "ok" THEN "read_h5d" ELSE "raised"
    /\ calls' = calls + 1
    /\ UNCHANGED <<fs, written, h5d, cyc>>

\* h5d = read_h5('./test-123456.h5')
TestReadH5d ==
    /\ pc = "read_h5d"
    /\ \E r \in {read_h5(fs, handles, calls + 1, last.filename, NoArg)} :
          /\ handles' = r.handles
          /\ last' = ReadCall(calls + 1, r.err, last.filename, r.ret)
          /\ h5d' = IF r.err = "ok" THEN r.ret ELSE h5d
          /\ pc' = IF r.err = "ok" THEN "loop_write" ELSE "raised"
    /\ calls' = calls + 1
    /\ UNCHANGED <<fs, written, rw, cyc>>

\* write_h5(rw, './test' + str(i) + '-123456.h5')
TestLoopWrite ==
    /\ pc = "loop_write"
    /\ cyc < Cycles
    /\ LET filename == LoopFilename(cyc, h5d.timestamp)
       IN  \E r \in {write_h5(fs, handles, calls + 1, rw, filename, NoArg,
                               None, TRUE)} :
              /\ fs' = r.fs
              /\ handles' = r.handles
              /\ last' = WriteCall(calls + 1, r.err, rw, filename)
              /\ written' = IF r.err = "ok" THEN NoteWrite(written, last')
                            ELSE written
              /\ pc' = IF r.err = "ok" THEN "loop_read" ELSE "loop_raised"
    /\ calls' = calls + 1
    /\ UNCHANGED <<h5d, rw, cyc>>

\* rw = read_h5('./test' + str(i) + '-123456.h5'), and the asserts on it
TestLoopRead ==
    /\ pc = "loop_read"
    /\ \E r \in {read_h5(fs, handles, calls + 1, last.filename, NoArg)} :
          /\ handles' = r.handles
          /\ last' = ReadCall(calls + 1, r.err, last.filename, r.ret)
          /\ rw' = IF r.err = "ok" THEN r.ret ELSE rw
          /\ pc' = IF r.err # "ok" THEN "loop_raised"
                   ELSE IF ~AssertsHold(r.ret, h5d, OriginalArray(written))
                        THEN "AssertionError"
                   ELSE IF cyc + 1 = Cycles THEN "done"
                   ELSE "loop_write"
    /\ cyc' = cyc + 1
    /\ calls' = calls + 1
    /\ UNCHANGED <<fs, written, h5d>>

InitSelfTest ==
    /\ fs = EmptyMap
    /\ handles = {}
    /\ calls = 0
    /\ last = NoCall
    /\ written = EmptyMap
    /\ pc = "start"
    /\ h5d = NoModel
    /\ rw = NoModel
    /\ cyc = 0

NextSelfTest ==
    \/ \E model \in Models, filename \in TestFilenames :
          TestWrite(model, filename)
    \/ TestReadRw
    \/ TestReadH5d
    \/ TestLoopWrite
    \/ TestLoopRead

SelfTest == InitSelfTest /\ [][NextSelfTest]_vars

\* ----------------------------------------------------------------- claims

\* The latest successful write_h5 call to a file.
LatestWrite(file) == written[file][Len(written[file])]

\* C1 (as claimed).  Round trip: when a model M whose data_attrs and
\* run_attrs hold text, numeric scalars and numeric sequences (and the unit)
\* was written with the store closed and the same file is read, read_h5
\* returns a model with M's array, with M's min, max and attrs at every axis
\* index, with M's data_attrs (UNITS after format then parse; UNITS and
\* LONG_NAME are the only keys the store may add) and with M's run_attrs
\* value under every key of M, the documented defaults under the others.
C1_RoundTrip ==
    (/\ last.op = "read"
     /\ last.file \in DOMAIN written
     /\ LatestWrite(last.file).write_data
     /\ LET M == DataObject(LatestWrite(last.file).data)
        IN  /\ \A k \in DOMAIN M.run_attrs :
                  M.run_attrs[k].t \in {"str", "num", "nseq"}
            /\ \A k \in DOMAIN M.data_attrs :
                  M.data_attrs[k].t \in {"str", "num", "nseq", "units"})
    => LET M == DataObject(LatestWrite(last.file).data)
           R == last.ret
           Documented ==
               "DT" :> NumSeq(<<1>>) @@ "ITER" :> NumSeq(<<0>>)
               @@ "MOVE C" :> NumSeq(<<0>>) @@ "PERIODIC" :> NumSeq(<<0>>)
               @@ "TIME" :> NumSeq(<<0>>) @@ "TIME UNITS" :> Str("")
               @@ "TYPE" :> Str("grid") @@ "XMIN" :> NumSeq(<<0>>)
               @@ "XMAX" :> NumSeq(<<0>>)
       IN  /\ last.err = "ok"
           /\ R.array = M.array
           /\ Len(R.axes) = Len(M.axes)
           /\ \A i \in 1..Len(M.axes) :
                 /\ R.axes[i].min = M.axes[i].min
                 /\ R.axes[i].max = M.axes[i].max
                 /\ R.axes[i].attrs = M.axes[i].attrs
           /\ DOMAIN M.data_attrs \subseteq DOMAIN R.data_attrs
           /\ DOMAIN R.data_attrs \subseteq
                 DOMAIN M.data_attrs \cup {"UNITS", "LONG_NAME"}
           /\ \A k \in DOMAIN M.data_attrs :
                 R.data_attrs[k] = IF k = "UNITS"
                                   THEN OSUnits(format(M.data_attrs[k]))
                                   ELSE M.data_attrs[k]
           /\ DOMAIN R.run_attrs = DOMAIN M.run_attrs \cup DOMAIN Documented
           /\ \A k \in DOMAIN R.run_attrs :
                 R.run_attrs[k] = IF k \in DOMAIN M.run_attrs
                                  THEN M.run_attrs[k] ELSE Documented[k]

\* C2 (as claimed).  No drift: after every cycle of the self-test (rw
\* written to a file carrying the same digit run and read back), the read
\* returns, and the model read equals R (h5d) in array, axes, timestamp,
\* name, data_attrs and run_attrs.
C2_NoDrift ==
    (last.op = "read" /\ cyc >= 1)
    => /\ last.err = "ok"
       /\ rw.array = h5d.array
       /\ rw.axes = h5d.axes
       /\ rw.timestamp = h5d.timestamp
       /\ rw.name = h5d.name
       /\ rw.data_attrs = h5d.data_attrs
       /\ rw.run_attrs = h5d.run_attrs

C4_MissingFilename ==
    [][(/\ calls' = calls + 1
        /\ last'.op = "write"
        /\ last'.filename = NoArg
        /\ last'.data.timestamp = None)
       => (/\ last'.err = "You did not specify a filename!!!"
           /\ fs' = fs
           /\ handles' = handles)]_vars

\* Such a call, with a path and a dataset name, on a file system that holds
\* a file.
C4_Witness ==
    /\ last.op = "write"
    /\ last.filename = NoArg
    /\ last.data.kind = "H5Data"
    /\ last.data.timestamp = None
    /\ last.path # NoArg
    /\ last.dataset_name # None
    /\ last.err = "You did not specify a filename!!!"
    /\ fs # EmptyMap

\* C5 (as claimed).  When read_h5 or write_h5 has returned, the handle the
\* call opened is closed.
C5_HandleClosed ==
    (last.op # None /\ last.err = "ok")
    => ~ \E h \in handles : h.id = last.id

\* C5 (amended).  When read_h5 has returned, or write_h5 called with
\* write_data true has returned, the handle the call opened is closed; when
\* write_h5 called with write_data false has returned, its handle is open.
C5_HandleClosedUnlessDeferred ==
    (last.op # None /\ last.err = "ok")
    => ((\E h \in handles : h.id = last.id)
           <=> (last.op = "write" /\ ~last.write_data))

\* A read_h5 that returned while the handle of an earlier write_h5 with
\* write_data false is open.
C5_Witness ==
    /\ last.op = "read"
    /\ last.err = "ok"
    /\ handles # {}
    /\ \A h \in handles : h.id # last.id

\* C6.  After a successful write_h5 the root of the store holds every
\* reserved key, with the model's encoded value when run_attrs has the key
\* and the documented default otherwise, and every other key of run_attrs
\* with its encoded value.
C6_RootAttributes ==
    (last.op = "write" /\ last.err = "ok")
    => LET root == fs[last.file].root
           run_attrs == DataObject(last.data).run_attrs
           Documented ==
               "DT" :> NumSeq(<<1>>) @@ "ITER" :> NumSeq(<<0>>)
               @@ "MOVE C" :> NumSeq(<<0>>) @@ "PERIODIC" :> NumSeq(<<0>>)
               @@ "TIME" :> NumSeq(<<0>>) @@ "TIME UNITS" :> Bytes1("")
               @@ "TYPE" :> Bytes1("grid") @@ "XMIN" :> NumSeq(<<0>>)
               @@ "XMAX" :> NumSeq(<<0>>)
       IN  /\ DOMAIN Documented \subseteq DOMAIN root
           /\ DOMAIN run_attrs \subseteq DOMAIN root
           /\ \A k \in DOMAIN Documented \cup DOMAIN run_attrs :
                 root[k] = IF k \in DOMAIN run_attrs
                           THEN (IF run_attrs[k].t = "str"
                                 THEN Bytes1(run_attrs[k].s)
                                 ELSE run_attrs[k])
                           ELSE Documented[k]

\* A successful write_h5 of a model whose run_attrs hold a reserved key as
\* text, a reserved key as numbers and a key that is not reserved.
C6_Witness ==
    /\ last.op = "write"
    /\ last.err = "ok"
    /\ {"TYPE", "TIME", "NOTE"} \subseteq DOMAIN last.data.run_attrs
    /\ "DT" \notin DOMAIN last.data.run_attrs
    /\ fs[last.file].root["TYPE"] = Bytes1("particles")
    /\ fs[last.file].root["DT"] = NumSeq(<<1>>)

\* C7 (as claimed).  Every text-valued attribute of a store (root, primary
\* dataset, axis records) is a one-element byte-string array; none is a
\* native str.
C7_TextAsByteArrays ==
    \A f \in DOMAIN fs :
       LET store == fs[f]
           IsEncoded(v) == v.t \in {"str", "bytes", "bytes1"} => v.t = "bytes1"
       IN  /\ \A k \in DOMAIN store.root : IsEncoded(store.root[k])
           /\ \A d \in DOMAIN store.ds :
                 \A k \in DOMAIN store.ds[d].attrs :
                    IsEncoded(store.ds[d].attrs[k])
           /\ \A n \in DOMAIN store.axes :
                 \A k \in DOMAIN store.axes[n].attrs :
                    IsEncoded(store.axes[n].attrs[k])

\* C8 (as claimed).  read_h5 of a file returns, and every raw attribute of
\* the root, the primary dataset (UNITS aside, which is parsed) and the
\* axis records enters the model decoded when it is a byte string or an
\* array of byte strings and unchanged otherwise.
C8_DecodeOnRead ==
    (last.op = "read" /\ last.err # "OSError")
    => LET store == fs[last.file]
           dataset == store.ds[scan_hdf5_file_for_main_data_array(store)]
           R == last.ret
           Expected(raw) == IF raw.t \in {"bytes", "bytes1"} THEN Str(raw.s)
                            ELSE raw
       IN  /\ last.err = "ok"
           /\ \A k \in DOMAIN store.root :
                 R.run_attrs[k] = Expected(store.root[k])
           /\ \A k \in DOMAIN dataset.attrs \ {"UNITS"} :
                 R.data_attrs[k] = Expected(dataset.attrs[k])
           /\ \A n \in DOMAIN store.axes :
                 \A k \in DOMAIN store.axes[n].attrs :
                    R.axes[Len(R.axes) + 1 - n].attrs[k]
                       = Expected(store.axes[n].attrs[k])

\* C9.  A file every write_h5 to which succeeded and closed the store holds
\* what the latest of these calls alone writes on an empty file system.
C9_ReplaceWholeFile ==
    \A f \in DOMAIN written :
       (\A i \in 1..Len(written[f]) : written[f][i].write_data)
       => LET w == LatestWrite(f)
              alone == write_h5(EmptyMap, {}, w.id, w.data, w.filename,
                                w.path, w.dataset_name, w.write_data)
          IN  /\ f \in DOMAIN fs
              /\ fs[f] = alone.fs[f]

\* Two writes to one file, closed both times, of different models under
\* different dataset names.
C9_Witness ==
    \E f \in DOMAIN written :
       /\ Len(written[f]) = 2
       /\ written[f][1].write_data /\ written[f][2].write_data
       /\ written[f][1].data # written[f][2].data
       /\ written[f][1].dataset_name # written[f][2].dataset_name
       /\ DOMAIN fs[f].ds = {"e1"}

\* C10 (as claimed).  A model read_h5 returns has as many axes as its array
\* has dimensions.
C10_AxesMatchRank ==
    (last.op = "read" /\ last.err = "ok")
    => Len(last.ret.axes) = Len(last.ret.array.shape)

==========================================================================
